---- MODULE Spec2Model ----
(***************************************************************************)
(* Model of src/agent.py: the per-user database registry                   *)
(* (get_or_create_user_db) and the sourcing pipeline run by the main       *)
(* script (strategy -> search -> score -> threshold -> sheet/email/table). *)
(* The three oracles (text completion, web search, Drive/Sheets/SMTP) are  *)
(* the environment: every reply they can give is an input drawn with \E.   *)
(* A candidate is identified by its Link; Name and Snippet are carried     *)
(* along by the code unchanged and are not represented.                    *)
(***************************************************************************)
EXTENDS Integers, Sequences, FiniteSets, TLC

VARIABLES
    registry,        \* rows of the User_Registry sheet: [email, sheet_id]
    files,           \* number of spreadsheet files created in the Drive folder
    user_sheet,      \* value returned by get_or_create_user_db (0 is None)
    db_user,         \* argument of the latest get_or_create_user_db call
    db_msgs,         \* st.* messages of the latest get_or_create_user_db call
    pc,              \* position of the main script
    exc,             \* the uncaught exception that ended the script, if any
    strategy,        \* value returned by generate_search_strategy
    role_title,      \* main: role_title
    queries,         \* main: queries
    qi,              \* search_google: number of queries issued so far
    res,             \* search_google: the latest oracle response
    all_results,     \* search_google: all_results
    raw_candidates,  \* main: raw_candidates
    ai_replies,      \* the scoring oracle's replies so far, one per call
    scored_data,     \* main: scored_data
    df,              \* main: df after the threshold filter
    worksheet,       \* rows appended to the new worksheet
    email_table,     \* the "Top 5 Matches" table of the email
    screen_table,    \* the table shown by st.dataframe
    ui               \* messages shown to the user by the run

dbvars == <<registry, files, user_sheet, db_user, db_msgs>>
vars == <<registry, files, user_sheet, db_user, db_msgs, pc, exc, strategy,
          role_title, queries, qi, res, all_results, raw_candidates,
          ai_replies, scored_data, df, worksheet, email_table, screen_table,
          ui>>

(***************************************************************************)
(* Bounds and program constants                                            *)
(***************************************************************************)
MaxFiles == 3
MaxQueries == 2
MaxItems == 2
MinScore == 10
HeadN == 5

Users == {"u1", "u2"}
Links == {"l1", "l2", "l3"}
Malformed == "malformed"

Min(a, b) == IF a < b THEN a ELSE b

(***************************************************************************)
(* get_or_create_user_db                                                   *)
(***************************************************************************)
Row(email, id) == [email |-> email, sheet_id |-> id]

RowsOf(reg, email) == {i \in 1..Len(reg) : reg[i].email = email}

\* a lookup that reads only the first record of the registry
InUserMap_FirstRowOnly(reg, email) == Len(reg) > 0 /\ reg[1].email = email

\* user_map = {row['User Email']: row for row in records}: the last row wins
InUserMap(reg, email) == RowsOf(reg, email) # {}
UserMapSheetId(reg, email) ==
    LET last == CHOOSE i \in RowsOf(reg, email) :
                    \A j \in RowsOf(reg, email) : j <= i
    IN  reg[last].sheet_id

\* steps 3-6: create the file, open it, register it
CreateAndRegister(user_email, msgs) ==
    /\ files < MaxFiles
    /\ db_msgs' = msgs \cup {"info_first_time"}
    /\ \/ \* files().create raises: nothing was created
          /\ UNCHANGED <<registry, files, user_sheet>>
          /\ exc' = "db"
       \/ \* the file is created, open_by_key or append_row raises
          /\ files' = files + 1
          /\ UNCHANGED <<registry, user_sheet>>
          /\ exc' = "db"
       \/ \* the file is created, opened and registered
          /\ files' = files + 1
          /\ registry' = Append(registry, Row(user_email, files + 1))
          /\ user_sheet' = files + 1
          /\ exc' = "none"

get_or_create_user_db(user_email) ==
    /\ db_user' = user_email
    /\ \/ \* client.open("User_Registry") raises: st.error, return None
          /\ db_msgs' = {"error_registry"}
          /\ user_sheet' = 0
          /\ exc' = "none"
          /\ UNCHANGED <<registry, files>>
       \/ \* get_all_records raises
          /\ db_msgs' = {}
          /\ exc' = "db"
          /\ UNCHANGED <<registry, files, user_sheet>>
       \/ \* the user is registered and the sheet opens
          /\ InUserMap(registry, user_email)
          /\ db_msgs' = {}
          /\ user_sheet' = UserMapSheetId(registry, user_email)
          /\ exc' = "none"
          /\ UNCHANGED <<registry, files>>
       \/ \* the user is registered and open_by_key raises: warn, fall through
          /\ InUserMap(registry, user_email)
          /\ CreateAndRegister(user_email, {"warning_cannot_open"})
       \/ \* the user is not registered
          /\ ~InUserMap(registry, user_email)
          /\ CreateAndRegister(user_email, {})

(***************************************************************************)
(* JSON values as the code sees them after json.loads                      *)
(***************************************************************************)
Num(n) == [t |-> "int", n |-> n]
NotANumber == [t |-> "str", n |-> 0]      \* a score such as "high"
AbsentNum == [t |-> "absent", n |-> 0]    \* the key is missing

Bs(t, items) == [t |-> t, items |-> items]
AbsentBs == Bs("absent", <<>>)

StrategyVal(t, role, bs) == [t |-> t, role |-> role, bs |-> bs]
Unset == StrategyVal("unset", "absent", AbsentBs)
PyNone == StrategyVal("none", "absent", AbsentBs)

SeqsUpTo(S, n) == UNION {[1..k -> S] : k \in 0..n}

\* values of 'boolean_strings': missing, a number, one string, a list of strings
BsValues ==
    {AbsentBs, Bs("int", <<>>), Bs("str", <<"a", "b">>)}
        \cup {Bs("list", qs) : qs \in SeqsUpTo({"q"}, MaxQueries)}

StrategyJson ==
    {StrategyVal("null", "absent", AbsentBs),
     StrategyVal("array", "absent", AbsentBs)}
        \cup {StrategyVal("object", r, b) : r \in {"absent", "Dev"}, b \in BsValues}

StrategyReplies ==
    {[kind |-> "raise", val |-> PyNone], [kind |-> "text", val |-> PyNone]}
        \cup {[kind |-> "json", val |-> v] : v \in StrategyJson}

\* generate_search_strategy: the parsed reply, or None after st.error
generate_search_strategy(reply) ==
    IF reply.kind = "json" THEN reply.val ELSE PyNone

\* Python truth value of what generate_search_strategy returned
Truthy(v) ==
    CASE v.t = "array" -> TRUE
      [] v.t = "object" -> v.role # "absent" \/ v.bs.t # "absent"
      [] OTHER -> FALSE

\* strategy.get('role_title', 'Candidate Search')
RoleTitleOf(v) == IF v.role = "absent" THEN "Candidate Search" ELSE v.role

(***************************************************************************)
(* search_google                                                           *)
(***************************************************************************)
Cand(l) == [Link |-> l]

\* a duplicate test that looks only at the most recently accepted result
HasLink_LastOnly(all, l) == all # <<>> /\ all[Len(all)].Link = l

HasLink(all, l) == \E i \in 1..Len(all) : all[i].Link = l

\* the loop over res.get('items', []); a malformed item raises inside the
\* try block and ends the handling of this query
RECURSIVE AcceptItems(_, _)
AcceptItems(all, items) ==
    IF items = <<>> THEN all
    ELSE IF Head(items) = Malformed THEN all
    ELSE IF HasLink(all, Head(items)) THEN AcceptItems(all, Tail(items))
    ELSE AcceptItems(Append(all, Cand(Head(items))), Tail(items))

NoResponse == [kind |-> "none", items |-> <<>>]
SearchResponses ==
    {[kind |-> "raise", items |-> <<>>]}
        \cup {[kind |-> "ok", items |-> its] :
                 its \in SeqsUpTo(Links \cup {Malformed}, MaxItems)}

\* one iteration of "for q in queries"
SearchQuery(all, response) ==
    IF response.kind = "raise" THEN all ELSE AcceptItems(all, response.items)

(***************************************************************************)
(* ai_score_candidate and the scoring loop                                 *)
(***************************************************************************)
AiResult(t, score, reason, flag) ==
    [t |-> t, score |-> score, reason |-> reason, flag |-> flag]

ScoreVals == {-5, 10, 11, 150}

ScoreJson ==
    {AiResult("array", AbsentNum, "absent", "absent"),
     AiResult("object", AbsentNum, "absent", "absent"),
     AiResult("object", NotANumber, "fits", "Strong Match")}
        \cup {AiResult("object", Num(n), "fits", "Strong Match") : n \in ScoreVals}

NoJson == AiResult("none", AbsentNum, "absent", "absent")
ScoreReplies ==
    {[kind |-> "raise", val |-> NoJson], [kind |-> "text", val |-> NoJson]}
        \cup {[kind |-> "json", val |-> v] : v \in ScoreJson}

\* a default that leaves the flag out
ai_score_candidate_NoFlag(reply) ==
    IF reply.kind = "json" THEN reply.val
    ELSE [t |-> "object", score |-> Num(0), reason |-> "AI Error", flag |-> "absent"]

\* ai_score_candidate: the parsed reply, or the default on any exception
ai_score_candidate(reply) ==
    IF reply.kind = "json" THEN reply.val
    ELSE AiResult("object", Num(0), "AI Error", "Unknown")

\* cand['AI Score'], cand['Reason'], cand['Flag'] of lines 281-283
Scored(cand, ai_result) ==
    [Link |-> cand.Link,
     AI_Score |-> IF ai_result.score.t = "absent" THEN Num(0) ELSE ai_result.score,
     Reason |-> IF ai_result.reason = "absent" THEN "N/A" ELSE ai_result.reason,
     Flag |-> IF ai_result.flag = "absent" THEN "" ELSE ai_result.flag]

(***************************************************************************)
(* threshold filter, sort_values, head                                     *)
(***************************************************************************)
\* a threshold that keeps the boundary score
AboveMin_Inclusive(row) == row.AI_Score.n >= MinScore

AboveMin(row) == row.AI_Score.n > MinScore

\* df[df['AI Score'] > 10]: the rows kept, in their order
RECURSIVE ThresholdFilter(_)
ThresholdFilter(rows) ==
    IF rows = <<>> THEN <<>>
    ELSE IF AboveMin(Head(rows))
    THEN <<Head(rows)>> \o ThresholdFilter(Tail(rows))
    ELSE ThresholdFilter(Tail(rows))

\* the comparison raises TypeError when a score is not a number
HasNonNumeric(rows) == \E i \in 1..Len(rows) : rows[i].AI_Score.t # "int"

NonIncreasing(rows) ==
    \A i \in 1..(Len(rows) - 1) : rows[i].AI_Score.n >= rows[i + 1].AI_Score.n

\* df.sort_values(by='AI Score', ascending=False): the order of equal
\* scores is not fixed by the default sort, so every sorted order is possible
SortValues(rows) ==
    {p \in {[i \in 1..Len(rows) |-> rows[f[i]]] : f \in Permutations(1..Len(rows))} :
        NonIncreasing(p)}

HeadRows(rows, n) == SubSeq(rows, 1, Min(n, Len(rows)))

(***************************************************************************)
(* The main script                                                         *)
(***************************************************************************)
InitRegistries == {<<>>, <<Row("u1", 1)>>}

Init ==
    /\ registry \in InitRegistries
    /\ files = Len(registry)
    /\ user_sheet = 0
    /\ db_user = "u1"
    /\ db_msgs = {}
    /\ pc = "form"
    /\ exc = "none"
    /\ strategy = Unset
    /\ role_title = ""
    /\ queries = <<>>
    /\ qi = 0
    /\ res = NoResponse
    /\ all_results = <<>>
    /\ raw_candidates = <<>>
    /\ ai_replies = <<>>
    /\ scored_data = <<>>
    /\ df = <<>>
    /\ worksheet = <<>>
    /\ email_table = <<>>
    /\ screen_table = <<>>
    /\ ui = {}

restvars == <<strategy, role_title, queries, qi, res, all_results,
              raw_candidates, ai_replies, scored_data, df, worksheet,
              email_table, screen_table>>

\* lines 252-259 and 302-303: submit, set up the database
SetupDb ==
    /\ pc = "form"
    /\ \E recipient_email \in Users : get_or_create_user_db(recipient_email)
    /\ pc' = IF exc' # "none" THEN "crashed"
             ELSE IF user_sheet' = 0 THEN "done" ELSE "strategy"
    /\ ui' = IF exc' = "none" /\ user_sheet' = 0
             THEN {"could_not_setup_db"} ELSE {}
    /\ UNCHANGED restvars

\* lines 261-268: strategy generation and its use
GenerateStrategy ==
    /\ pc = "strategy"
    /\ \E reply \in StrategyReplies :
          LET s == generate_search_strategy(reply) IN
          /\ strategy' = s
          /\ ui' = IF reply.kind = "json" THEN ui ELSE ui \cup {"strategy_error"}
          /\ IF ~Truthy(s)
             THEN /\ pc' = "done"
                  /\ UNCHANGED <<exc, role_title, queries>>
             ELSE IF s.t # "object"
             THEN \* strategy.get: AttributeError
                  /\ pc' = "crashed"
                  /\ exc' = "strategy_get"
                  /\ UNCHANGED <<role_title, queries>>
             ELSE IF s.bs.t = "int"
             THEN \* len(queries): TypeError
                  /\ pc' = "crashed"
                  /\ exc' = "len_queries"
                  /\ role_title' = RoleTitleOf(s)
                  /\ UNCHANGED queries
             ELSE /\ pc' = "search"
                  /\ role_title' = RoleTitleOf(s)
                  /\ queries' = s.bs.items
                  /\ UNCHANGED exc
    /\ UNCHANGED <<qi, res, all_results, raw_candidates, ai_replies,
                   scored_data, df, worksheet, email_table, screen_table>>
    /\ UNCHANGED dbvars

\* search_google: one query sent to the search oracle
SearchStep ==
    /\ pc = "search"
    /\ qi < Len(queries)
    /\ \E response \in SearchResponses :
          /\ res' = response
          /\ all_results' = SearchQuery(all_results, response)
    /\ qi' = qi + 1
    /\ UNCHANGED <<pc, exc, strategy, role_title, queries, raw_candidates,
                   ai_replies, scored_data, df, worksheet, email_table,
                   screen_table, ui>>
    /\ UNCHANGED dbvars

\* search_google returns; lines 270-272 and 300-301
SearchReturn ==
    /\ pc = "search"
    /\ qi = Len(queries)
    /\ raw_candidates' = all_results
    /\ res' = NoResponse
    /\ IF all_results # <<>>
       THEN pc' = "score" /\ ui' = ui
       ELSE pc' = "done" /\ ui' = ui \cup {"no_candidates"}
    /\ UNCHANGED <<exc, strategy, role_title, queries, qi, all_results,
                   ai_replies, scored_data, df, worksheet, email_table,
                   screen_table>>
    /\ UNCHANGED dbvars

\* lines 278-284: one iteration of the scoring loop
ScoreStep ==
    /\ pc = "score"
    /\ Len(ai_replies) < Len(raw_candidates)
    /\ \E reply \in ScoreReplies :
          LET ai_result == ai_score_candidate(reply)
              cand == raw_candidates[Len(ai_replies) + 1]
          IN  /\ ai_replies' = Append(ai_replies, reply)
              /\ IF ai_result.t # "object"
                 THEN \* ai_result.get: AttributeError
                      /\ pc' = "crashed"
                      /\ exc' = "ai_result_get"
                      /\ UNCHANGED scored_data
                 ELSE /\ scored_data' = Append(scored_data, Scored(cand, ai_result))
                      /\ UNCHANGED <<pc, exc>>
    /\ UNCHANGED <<strategy, role_title, queries, qi, res, all_results,
                   raw_candidates, df, worksheet, email_table, screen_table, ui>>
    /\ UNCHANGED dbvars

\* lines 286-299: threshold, create_tab_and_fill, send_summary_email, table
Report ==
    /\ pc = "score"
    /\ Len(ai_replies) = Len(raw_candidates)
    /\ IF HasNonNumeric(scored_data)
       THEN \* df['AI Score'] > 10: TypeError
            /\ pc' = "crashed"
            /\ exc' = "score_compare"
            /\ UNCHANGED <<df, worksheet, email_table, screen_table, ui>>
       ELSE /\ pc' = "done"
            /\ exc' = exc
            /\ df' = ThresholdFilter(scored_data)
            /\ \/ \* create_tab_and_fill fails: st.error twice
                  /\ ui' = ui \cup {"tab_creation_error", "error_saving"}
                  /\ UNCHANGED <<worksheet, email_table, screen_table>>
               \/ \* the tab is written, the email composed, the table shown
                  \E rows \in SortValues(df'), top \in SortValues(df'),
                     sent \in BOOLEAN :
                      /\ worksheet' = rows
                      /\ email_table' = HeadRows(top, HeadN)
                      /\ screen_table' = HeadRows(df', HeadN)
                      /\ ui' = (ui \cup {"success"})
                                 \cup (IF sent THEN {} ELSE {"email_error"})
    /\ UNCHANGED <<strategy, role_title, queries, qi, res, all_results,
                   raw_candidates, ai_replies, scored_data>>
    /\ UNCHANGED dbvars

Next == SetupDb \/ GenerateStrategy \/ SearchStep \/ SearchReturn
            \/ ScoreStep \/ Report

Spec == Init /\ [][Next]_vars

(***************************************************************************)
(* Any sequence of get_or_create_user_db calls                             *)
(***************************************************************************)
CallDb ==
    /\ pc = "form"
    /\ \E user_email \in Users : get_or_create_user_db(user_email)
    /\ UNCHANGED <<pc, ui>>
    /\ UNCHANGED restvars

NextDB == CallDb

SpecDB == Init /\ [][NextDB]_vars

(***************************************************************************)
(* Properties                                                              *)
(***************************************************************************)
Distinct(rows) ==
    \A i, j \in 1..Len(rows) : i # j => rows[i].Link # rows[j].Link

LinksOf(rows) == {rows[i].Link : i \in 1..Len(rows)}

\* C1: the list search_google builds and returns never holds two entries
\* with the same Link, whatever the oracle returned for the queries so far.
C1_NoDuplicateLinks == Distinct(all_results) /\ Distinct(raw_candidates)

\* the second query returned the same new link twice and it was accepted once
C1_Witness ==
    /\ pc = "search"
    /\ qi = 2
    /\ res.kind = "ok"
    /\ res.items = <<"l2", "l2">>
    /\ all_results = <<Cand("l1"), Cand("l2")>>

AllAbove(rows) ==
    \A i \in 1..Len(rows) :
        rows[i].AI_Score.t = "int" /\ rows[i].AI_Score.n > MinScore

\* C2: every candidate of the report (the filtered frame, the worksheet
\* rows, the email table, the table on screen) has a score strictly greater
\* than the threshold 10.
C2_ReportAboveThreshold ==
    /\ AllAbove(df)
    /\ AllAbove(worksheet)
    /\ AllAbove(email_table)
    /\ AllAbove(screen_table)

\* a report was produced from a scored list holding a score equal to 10
C2_Witness ==
    /\ pc = "done"
    /\ "success" \in ui
    /\ screen_table # <<>>
    /\ \E i \in 1..Len(scored_data) : scored_data[i].AI_Score = Num(MinScore)

\* C3: the worksheet rows, the email's top-5 table and the on-screen top-5
\* table all list their candidates with scores non-increasing by position.
C3_RankedOutputsSorted ==
    /\ NonIncreasing(worksheet)
    /\ NonIncreasing(email_table)
    /\ NonIncreasing(screen_table)

ScoringFailed(reply) == reply.kind \in {"raise", "text"}

FailOpen(reason) ==
    /\ Len(scored_data) <= Len(ai_replies)
    /\ Len(ai_replies) <= Len(raw_candidates)
    /\ \A i \in 1..Len(ai_replies) :
          ScoringFailed(ai_replies[i]) =>
              /\ i <= Len(scored_data)
              /\ scored_data[i].Link = raw_candidates[i].Link
              /\ scored_data[i].AI_Score = Num(0)
              /\ scored_data[i].Reason = reason
              /\ scored_data[i].Flag = "Unknown"
              /\ scored_data[i].Link \notin
                    (LinksOf(df) \cup LinksOf(worksheet)
                        \cup LinksOf(email_table) \cup LinksOf(screen_table))
    /\ (pc = "done" /\ ai_replies # <<>>) =>
          /\ Len(scored_data) = Len(raw_candidates)
          /\ \A i \in 1..Len(scored_data) :
                scored_data[i].Link = raw_candidates[i].Link

\* C4 (as amended): a candidate whose scoring call raised or returned text
\* that is not JSON is in the scored list, at its position, with score 0,
\* reason "AI Error" and flag "Unknown"; a scored list that reaches the
\* threshold filter has exactly one entry per raw candidate; and the failed
\* candidate is in no report.
C4_FailOpen == FailOpen("AI Error")

\* C4 (as claimed): the same with reason "Error".
C4_FailOpen_ReasonError == FailOpen("Error")

\* three candidates, the scoring call failed for the second, report produced
C4_Witness ==
    /\ pc = "done"
    /\ "success" \in ui
    /\ Len(raw_candidates) = 3
    /\ Len(scored_data) = 3
    /\ ScoringFailed(ai_replies[2])
    /\ ~ScoringFailed(ai_replies[1])
    /\ ~ScoringFailed(ai_replies[3])
    /\ df # <<>>

QueryFailed(r) ==
    r.kind = "raise" \/ \E i \in 1..Len(r.items) : r.items[i] = Malformed

\* C5: a query whose handling fails (the request raises, or an item of the
\* response is malformed) adds nothing to all_results, leaves the results
\* of other queries as they were, and the loop goes on to the next query.
C5_FailedQueryContributesNothing ==
    [][(pc = "search" /\ qi' = qi + 1 /\ QueryFailed(res')) =>
          (all_results' = all_results /\ pc' = "search" /\ exc' = "none")]_vars

\* C6: no reply of the text-completion or search oracle ends the run by an
\* uncaught exception.
C6_NoOracleCrash ==
    exc \notin {"strategy_get", "len_queries", "ai_result_get", "score_compare"}

ValidStrategy(v) == v.t = "object" /\ v.role # "absent" /\ v.bs.t = "list"

\* C7: when the strategy reply is anything but an object with a role label
\* and a list of query strings, no search request is sent and no candidate
\* is scored.
C7_InvalidStrategyHalts ==
    (strategy.t # "unset" /\ ~ValidStrategy(strategy)) =>
        (qi = 0 /\ ai_replies = <<>>)

Reasons ==
    {"could_not_setup_db", "strategy_error", "no_candidates", "error_saving",
     "all_below_threshold"}

\* C8: a run that ends without a non-empty ranked table shows a specific
\* reason, and a run whose candidates all scored at or below the threshold
\* is not reported as a success (nor as "no candidates").
C8_ZeroResultsReported ==
    (pc = "done" /\ screen_table = <<>>) =>
        /\ ui \cap Reasons # {}
        /\ (scored_data # <<>> /\ df = <<>>) =>
              ("success" \notin ui /\ "no_candidates" \notin ui)

InRange(rows) ==
    \A i \in 1..Len(rows) :
        /\ rows[i].AI_Score.t = "int"
        /\ 0 <= rows[i].AI_Score.n
        /\ rows[i].AI_Score.n <= 100

\* C9: every scored candidate, before the threshold and in the report, has
\* an integer score between 0 and 100.
C9_ScoreBounds ==
    /\ InRange(scored_data)
    /\ InRange(df)
    /\ InRange(worksheet)
    /\ InRange(email_table)
    /\ InRange(screen_table)

RowCount(reg, u) == Cardinality({i \in 1..Len(reg) : reg[i].email = u})

LastSheetId(reg, u) ==
    reg[CHOOSE i \in 1..Len(reg) :
            reg[i].email = u /\ \A j \in (i + 1)..Len(reg) : reg[j].email # u].sheet_id

\* C10 (as claimed): the registry holds at most one row per user email.
C10_OneRowPerUser == \A u \in Users : RowCount(registry, u) <= 1

\* C10 (as amended): a call appends at most one row, for the calling user
\* and the file it just created, and only when that user has no row or the
\* registered sheet could not be opened; a call for a user whose registered
\* sheet opens returns that sheet (the one of the user's last row), creates
\* no file and leaves the registry unchanged.
C10_RegistryGrowth ==
    [][/\ registry' # registry =>
             /\ registry' = Append(registry, Row(db_user', files + 1))
             /\ files' = files + 1
             /\ user_sheet' = files + 1
             /\ \/ RowCount(registry, db_user') = 0
                \/ "warning_cannot_open" \in db_msgs'
       /\ (/\ RowCount(registry, db_user') > 0
           /\ exc' = "none"
           /\ db_msgs' = {}) =>
             /\ registry' = registry
             /\ files' = files
             /\ user_sheet' = LastSheetId(registry, db_user')
      ]_vars

\* u1 has two rows (a sheet that could not be opened was replaced) and the
\* latest call opened the sheet of the last one
C10_Witness ==
    /\ RowCount(registry, "u1") = 2
    /\ db_user = "u1"
    /\ db_msgs = {}
    /\ exc = "none"
    /\ user_sheet = LastSheetId(registry, "u1")

====
